---- MODULE Spec2Model ----
(***************************************************************************)
(* Order placement, pricing and status handling of the NavKar Jewellery    *)
(* API (src/main.py): the product and order collections, the admin gate,   *)
(* and create_order as the sequence of store accesses and clock readings   *)
(* it performs, so that concurrent requests interleave between them.       *)
(*                                                                         *)
(* Numbers.  Python floats are binary floating point numbers with a        *)
(* 53 bit significand.  Here a float is a natural number n standing for    *)
(* n / 2^FracBits, representable when it has at most Prec significant      *)
(* bits; every float operation rounds to nearest, ties to even, exactly as *)
(* IEEE 754 does, on the smaller format.  round(x, 2) is identified with   *)
(* the number of hundredths it denotes.                                    *)
(*                                                                         *)
(* Identifiers.  A path or body id is a string.  Strings are modelled by   *)
(* their shape: the lower-case hex rendering of an ObjectId (what str()    *)
(* produces), the upper-case rendering of the same 12 bytes (accepted by   *)
(* ObjectId(), different as a string), or a string that is no ObjectId.    *)
(***************************************************************************)
EXTENDS Integers, Sequences, FiniteSets, TLC

\* ---------------------------------------------------------------- bounds
NumClients == 2
MaxProductOid == 2
MaxOrders == 2
MaxCartLen == 2
MaxPricingCartLen == 3
MaxQuantity == 2
MaxClock == 1
Prec == 4
FracBits == 3

Prices == {1, 8}
Names == {"ring"}
PaymentMethods == {"card", "cod"}
Customers == {"asha"}
Tokens == {"admin123", "letmein", ""}

Clients == 1..NumClients
ProductOids == 1..MaxProductOid
OrderOids == 1..MaxOrders

\* ------------------------------------------------------------ identifiers
NoDoc == [absent |-> TRUE]
Malformed == [form |-> "bad", n |-> 0]
NoId == [form |-> "none", n |-> 0]
IdStrings(oids) == [form : {"lower", "upper"}, n : oids] \cup {Malformed}

\* ObjectId.is_valid(v)
is_valid(v) == v.form \in {"lower", "upper"}
\* ObjectId(v): the 12 bytes the hex digits denote, whatever their case
ObjectId(v) == v.n
\* str(oid): 24 lower-case hex digits
str(oid) == [form |-> "lower", n |-> oid]
\* PyObjectId.validate: the ObjectId, or ValueError
validate(v) ==
  IF is_valid(v) THEN [raised |-> FALSE, oid |-> ObjectId(v)]
  ELSE [raised |-> TRUE, oid |-> 0]

\* ----------------------------------------------------------------- floats
RECURSIVE Pow2(_)
Pow2(k) == IF k = 0 THEN 1 ELSE 2 * Pow2(k - 1)

\* the spacing of the floats around n
RECURSIVE Ulp(_)
Ulp(n) == IF n < Pow2(Prec) THEN 1 ELSE 2 * Ulp(n \div 2)

\* round to nearest representable float, ties to even
RoundNearestEven(n) ==
  LET q == Ulp(n)
      lo == (n \div q) * q
      r == n - lo
  IN IF 2 * r < q THEN lo
     ELSE IF 2 * r > q THEN lo + q
     ELSE IF (lo \div q) % 2 = 0 THEN lo ELSE lo + q

FAdd(a, b) == RoundNearestEven(a + b)
FMul(a, b) == RoundNearestEven(a * b)

\* round(x, 2): the exact value of x rounded half-even to hundredths
Round2(x) ==
  LET num == x * 100
      den == Pow2(FracBits)
      q == num \div den
      r == num % den
  IN IF 2 * r < den THEN q
     ELSE IF 2 * r > den THEN q + 1
     ELSE IF q % 2 = 0 THEN q ELSE q + 1

\* ------------------------------------------------------------------- auth
ADMIN_TOKEN == "admin123"

RequireAdminLax(x_admin_token) == x_admin_token = "" \/ x_admin_token = ADMIN_TOKEN

\* require_admin passes (TRUE) or raises 401 (FALSE)
RequireAdmin(x_admin_token) == x_admin_token = ADMIN_TOKEN

\* ------------------------------------------------------------ order logic
\* db["product"].find({"_id": {"$in": product_ids}}) keyed by str(_id)
Prods(productColl, product_ids) ==
  [k \in {str(o) : o \in {p \in product_ids : productColl[p] # NoDoc}}
     |-> productColl[ObjectId(k)]]

\* one entry of enriched_items (image_url is copied from the product the way
\* name is; a product is modelled by its name and price)
LineItem(item, prod) ==
  [product_id |-> item.product_id, name |-> prod.name,
   price |-> prod.price, quantity |-> item.quantity]

RECURSIVE EnrichSkippingFrom(_, _, _, _, _)
EnrichSkippingFrom(cartItems, prods, i, enriched_items, total) ==
  IF i > Len(cartItems)
  THEN [ok |-> TRUE, items |-> enriched_items, total |-> total]
  ELSE LET item == cartItems[i]
       IN IF item.product_id \notin DOMAIN prods
          THEN EnrichSkippingFrom(cartItems, prods, i + 1, enriched_items, total)
          ELSE LET prod == prods[item.product_id]
               IN EnrichSkippingFrom(cartItems, prods, i + 1,
                     Append(enriched_items, LineItem(item, prod)),
                     FAdd(total, FMul(prod.price, item.quantity)))

EnrichSkipping(cartItems, prods) ==
  EnrichSkippingFrom(cartItems, prods, 1, <<>>, 0)

RECURSIVE EnrichUnitFrom(_, _, _, _, _)
EnrichUnitFrom(cartItems, prods, i, enriched_items, total) ==
  IF i > Len(cartItems)
  THEN [ok |-> TRUE, items |-> enriched_items, total |-> total]
  ELSE LET item == cartItems[i]
       IN IF item.product_id \notin DOMAIN prods
          THEN [ok |-> FALSE, items |-> <<>>, total |-> 0]
          ELSE LET prod == prods[item.product_id]
               IN EnrichUnitFrom(cartItems, prods, i + 1,
                     Append(enriched_items, LineItem(item, prod)),
                     FAdd(total, prod.price))

EnrichUnit(cartItems, prods) == EnrichUnitFrom(cartItems, prods, 1, <<>>, 0)

\* the loop of create_order from line i on
RECURSIVE EnrichFrom(_, _, _, _, _)
EnrichFrom(cartItems, prods, i, enriched_items, total) ==
  IF i > Len(cartItems)
  THEN [ok |-> TRUE, items |-> enriched_items, total |-> total]
  ELSE LET item == cartItems[i]
       IN IF item.product_id \notin DOMAIN prods
          THEN [ok |-> FALSE, items |-> <<>>, total |-> 0]
          ELSE LET prod == prods[item.product_id]
               IN EnrichFrom(cartItems, prods, i + 1,
                     Append(enriched_items, LineItem(item, prod)),
                     FAdd(total, FMul(prod.price, item.quantity)))

\* the loop of create_order: the line items and the running total, or the
\* HTTPException(400) of the first line whose product is not in prods
Enrich(cartItems, prods) == EnrichFrom(cartItems, prods, 1, <<>>, 0)

OrderDoc(enriched_items, total, payment_method, customer, created_at, updated_at) ==
  [items |-> enriched_items,
   total_amount |-> Round2(total),
   status |-> "pending",
   payment_method |-> payment_method,
   customer |-> customer,
   created_at |-> created_at,
   updated_at |-> updated_at]

MarkPaidSetKeepStatus(doc, now) == [doc EXCEPT !.updated_at = now]

MarkPaidSetRestamp(doc, now) ==
  [doc EXCEPT !.status = "paid", !.updated_at = now, !.created_at = now]

\* {"$set": {"status": "paid", "updated_at": now}}
MarkPaidSet(doc, now) == [doc EXCEPT !.status = "paid", !.updated_at = now]

\* ------------------------------------------------------------------ state
VARIABLES product,   \* db["product"]: ObjectId -> document or NoDoc
  order,     \* db["order"]: ObjectId -> document, ids in insertion order
  clock,     \* what datetime.now(timezone.utc) returns
  pc,        \* per request slot: position of create_order
  orderIn,   \* the OrderIn body of the create_order call in the slot
  priced,    \* its enriched_items and total after the loop
  created,   \* its "created_at" entry, evaluated before "updated_at"
  ret,       \* its response: status and the stored order
  resp       \* the last response of the one-step handlers

vars == <<product, order, clock, pc, orderIn, priced, created, ret, resp>>

NoOrderIn == [items |-> <<>>, customer |-> "", payment_method |-> ""]
NoPriced == [items |-> <<>>, total |-> 0]
NoRet == [status |-> 0, id |-> NoId]
NoResp == [op |-> "", tok |-> "", id |-> NoId, status |-> 0]

SeqsUpTo(S, n) == UNION {[1..k -> S] : k \in 0..n}
OrderStatuses == {"pending", "paid", "shipped"}

\* an order placed before this process started, in any documented status
EarlierOrder(s) ==
  [items |-> <<[product_id |-> str(1), name |-> "ring", price |-> 8, quantity |-> 1]>>,
   total_amount |-> 100,
   status |-> s,
   payment_method |-> "card",
   customer |-> "asha",
   created_at |-> -1,
   updated_at |-> -1]

\* the process starts on a database holding the catalog and the orders given
InitOn(catalogs, orderColls) ==
  /\ product \in catalogs
  /\ order \in orderColls
  /\ clock = 0
  /\ pc = [c \in Clients |-> "idle"]
  /\ orderIn = [c \in Clients |-> NoOrderIn]
  /\ priced = [c \in Clients |-> NoPriced]
  /\ created = [c \in Clients |-> 0]
  /\ ret = [c \in Clients |-> NoRet]
  /\ resp = NoResp

InFlight == {c \in Clients : pc[c] \in {"priced", "stamped"}}

\* ---------------------------------------------------------------- actions
Tick ==
  /\ clock < MaxClock
  /\ clock' = clock + 1
  /\ UNCHANGED <<product, order, pc, orderIn, priced, created, ret, resp>>

\* create_order up to the end of the loop: the empty-cart check, the
\* validation of every id, the one batch read, the pricing of every line
CreateOrderRead(c, o) ==
  /\ pc[c] = "idle"
  /\ Len(order) + Cardinality(InFlight) < MaxOrders
  /\ orderIn' = [orderIn EXCEPT ![c] = o]
  /\ IF o.items = <<>>
     THEN /\ pc' = [pc EXCEPT ![c] = "done"]
          /\ ret' = [ret EXCEPT ![c] = [status |-> 400, id |-> NoId]]
          /\ UNCHANGED priced
     ELSE IF \E i \in 1..Len(o.items) : validate(o.items[i].product_id).raised
     THEN /\ pc' = [pc EXCEPT ![c] = "done"]
          /\ ret' = [ret EXCEPT ![c] = [status |-> 500, id |-> NoId]]
          /\ UNCHANGED priced
     ELSE LET product_ids == {validate(o.items[i].product_id).oid : i \in 1..Len(o.items)}
              prods == Prods(product, product_ids)
              e == Enrich(o.items, prods)
          IN IF ~e.ok
             THEN /\ pc' = [pc EXCEPT ![c] = "done"]
                  /\ ret' = [ret EXCEPT ![c] = [status |-> 400, id |-> NoId]]
                  /\ UNCHANGED priced
             ELSE /\ pc' = [pc EXCEPT ![c] = "priced"]
                  /\ priced' = [priced EXCEPT ![c] = [items |-> e.items, total |-> e.total]]
                  /\ UNCHANGED ret
  /\ UNCHANGED <<product, order, clock, created, resp>>

\* "created_at": datetime.now(timezone.utc)
CreateOrderStamp(c) ==
  /\ pc[c] = "priced"
  /\ created' = [created EXCEPT ![c] = clock]
  /\ pc' = [pc EXCEPT ![c] = "stamped"]
  /\ UNCHANGED <<product, order, clock, orderIn, priced, ret, resp>>

\* "updated_at": datetime.now(timezone.utc), insert_one, find_one
CreateOrderInsert(c) ==
  /\ pc[c] = "stamped"
  /\ LET order_doc == OrderDoc(priced[c].items, priced[c].total,
                               orderIn[c].payment_method, orderIn[c].customer,
                               created[c], clock)
         inserted_id == Len(order) + 1
     IN /\ order' = Append(order, order_doc)
        /\ ret' = [ret EXCEPT ![c] = [status |-> 200, id |-> str(inserted_id)]]
  /\ pc' = [pc EXCEPT ![c] = "done"]
  /\ priced' = [priced EXCEPT ![c] = NoPriced]
  /\ created' = [created EXCEPT ![c] = 0]
  /\ UNCHANGED <<product, clock, orderIn, resp>>

\* the response leaves; the slot takes the next request
CreateOrderReturn(c) ==
  /\ pc[c] = "done"
  /\ pc' = [pc EXCEPT ![c] = "idle"]
  /\ orderIn' = [orderIn EXCEPT ![c] = NoOrderIn]
  /\ ret' = [ret EXCEPT ![c] = NoRet]
  /\ UNCHANGED <<product, order, clock, priced, created, resp>>

Responds(op, tok, id, status) ==
  resp' = [op |-> op, tok |-> tok, id |-> id, status |-> status]

ListOrders(tok) ==
  /\ Responds("list_orders", tok, NoId, IF RequireAdmin(tok) THEN 200 ELSE 401)
  /\ UNCHANGED <<product, order, clock, pc, orderIn, priced, created, ret>>

GetOrder(id) ==
  /\ LET v == validate(id)
     IN Responds("get_order", "", id,
                 IF v.raised THEN 500
                 ELSE IF v.oid \notin DOMAIN order THEN 404 ELSE 200)
  /\ UNCHANGED <<product, order, clock, pc, orderIn, priced, created, ret>>

MarkOrderPaid(tok, id) ==
  /\ LET v == validate(id)
     IN IF ~RequireAdmin(tok)
        THEN Responds("mark_order_paid", tok, id, 401) /\ UNCHANGED order
        ELSE IF v.raised
        THEN Responds("mark_order_paid", tok, id, 500) /\ UNCHANGED order
        ELSE IF v.oid \notin DOMAIN order
        THEN Responds("mark_order_paid", tok, id, 404) /\ UNCHANGED order
        ELSE /\ order' = [order EXCEPT ![v.oid] = MarkPaidSet(order[v.oid], clock)]
             /\ Responds("mark_order_paid", tok, id, 200)
  /\ UNCHANGED <<product, clock, pc, orderIn, priced, created, ret>>

CreateProduct(tok, payload) ==
  /\ IF ~RequireAdmin(tok)
     THEN Responds("create_product", tok, NoId, 401) /\ UNCHANGED product
     ELSE \E new_id \in ProductOids :
            /\ product[new_id] = NoDoc
            /\ product' = [product EXCEPT ![new_id] = payload]
            /\ Responds("create_product", tok, NoId, 200)
  /\ UNCHANGED <<order, clock, pc, orderIn, priced, created, ret>>

UpdateProduct(tok, id, payload) ==
  /\ LET v == validate(id)
     IN IF ~RequireAdmin(tok)
        THEN Responds("update_product", tok, id, 401) /\ UNCHANGED product
        ELSE IF v.raised
        THEN Responds("update_product", tok, id, 500) /\ UNCHANGED product
        ELSE IF product[v.oid] = NoDoc
        THEN Responds("update_product", tok, id, 404) /\ UNCHANGED product
        ELSE /\ product' = [product EXCEPT ![v.oid] = payload]
             /\ Responds("update_product", tok, id, 200)
  /\ UNCHANGED <<order, clock, pc, orderIn, priced, created, ret>>

DeleteProduct(tok, id) ==
  /\ LET v == validate(id)
     IN IF ~RequireAdmin(tok)
        THEN Responds("delete_product", tok, id, 401) /\ UNCHANGED product
        ELSE IF v.raised
        THEN Responds("delete_product", tok, id, 500) /\ UNCHANGED product
        ELSE IF product[v.oid] = NoDoc
        THEN Responds("delete_product", tok, id, 404) /\ UNCHANGED product
        ELSE /\ product' = [product EXCEPT ![v.oid] = NoDoc]
             /\ Responds("delete_product", tok, id, 200)
  /\ UNCHANGED <<order, clock, pc, orderIn, priced, created, ret>>

\* --------------------------------------------------------- specifications
ProductPayloads == [name : Names, price : Prices]
EmptyCatalog == [o \in ProductOids |-> NoDoc]
IssuedIds(oids) == {str(o) : o \in oids}
SharedId == str(1)
OneProduct(payloads) ==
  {[EmptyCatalog EXCEPT ![ObjectId(SharedId)] = p] : p \in payloads}

\* Spec: the order life cycle.  One request slot placing one-line orders,
\* the admin acting with the configured token on ids as the API issues them,
\* the clock running.
LifeOrderIns ==
  [items : SeqsUpTo([product_id : {SharedId}, quantity : {1}], 1),
   customer : Customers, payment_method : {"card"}]

Init ==
  InitOn(OneProduct(ProductPayloads),
         {<<>>} \cup {<<EarlierOrder(s)>> : s \in OrderStatuses})

Next ==
  \/ Tick
  \/ \E o \in LifeOrderIns : CreateOrderRead(1, o)
  \/ CreateOrderStamp(1)
  \/ CreateOrderInsert(1)
  \/ CreateOrderReturn(1)
  \/ \E id \in IssuedIds(OrderOids) : MarkOrderPaid(ADMIN_TOKEN, id)
  \/ \E payload \in ProductPayloads : UpdateProduct(ADMIN_TOKEN, SharedId, payload)
  \/ DeleteProduct(ADMIN_TOKEN, SharedId)

Spec == Init /\ [][Next]_vars

\* GateSpec: every token and every shape of id against every handler.
GateOrderIns ==
  [items : {<<>>} \cup {<<[product_id |-> id, quantity |-> 1]>> : id \in IdStrings({1})},
   customer : Customers, payment_method : {"card"}]
GatePayloads == [name : Names, price : {8}]

GateInit == InitOn({EmptyCatalog}, {<<>>, <<EarlierOrder("pending")>>})

GateNext ==
  \/ \E o \in GateOrderIns : CreateOrderRead(1, o)
  \/ CreateOrderStamp(1)
  \/ CreateOrderInsert(1)
  \/ CreateOrderReturn(1)
  \/ \E tok \in Tokens : ListOrders(tok)
  \/ \E id \in IdStrings(OrderOids) : GetOrder(id)
  \/ \E tok \in Tokens, id \in IdStrings(OrderOids) : MarkOrderPaid(tok, id)
  \/ \E tok \in Tokens, payload \in GatePayloads : CreateProduct(tok, payload)
  \/ \E tok \in Tokens, id \in IdStrings(ProductOids), payload \in GatePayloads :
       UpdateProduct(tok, id, payload)
  \/ \E tok \in Tokens, id \in IdStrings(ProductOids) : DeleteProduct(tok, id)

GateSpec == GateInit /\ [][GateNext]_vars

\* CartSpec: one create_order call on any catalog, over every cart up to
\* MaxCartLen lines of every shape of product_id.
CartOrderIns ==
  [items : SeqsUpTo([product_id : IdStrings(ProductOids), quantity : {1}], MaxCartLen),
   customer : Customers, payment_method : {"card"}]

CartInit ==
  InitOn([ProductOids -> GatePayloads \cup {NoDoc}], {<<>>, <<EarlierOrder("pending")>>})

CartNext ==
  \/ \E o \in CartOrderIns : CreateOrderRead(1, o)
  \/ CreateOrderStamp(1)
  \/ CreateOrderInsert(1)

CartSpec == CartInit /\ [][CartNext]_vars

\* PricingSpec: one create_order call on any catalog and prices, over longer
\* carts, every line an id as the API issues it.
PricingOrderIns ==
  [items : SeqsUpTo([product_id : IssuedIds(ProductOids), quantity : 1..MaxQuantity],
                    MaxPricingCartLen),
   customer : Customers, payment_method : PaymentMethods]

PricingInit ==
  InitOn([ProductOids -> ProductPayloads \cup {NoDoc}], {<<>>})

PricingNext ==
  \/ \E o \in PricingOrderIns : CreateOrderRead(1, o)
  \/ CreateOrderStamp(1)
  \/ CreateOrderInsert(1)

PricingSpec == PricingInit /\ [][PricingNext]_vars

\* ConcurrentSpec: every request slot places one order for the same product,
\* a one-line or a two-line cart, while the admin changes its price.
ConcurrentOrderIns ==
  [items : {<<[product_id |-> SharedId, quantity |-> 1]>>,
            <<[product_id |-> SharedId, quantity |-> 1],
              [product_id |-> SharedId, quantity |-> 2]>>},
   customer : Customers, payment_method : {"card"}]

ConcurrentInit == InitOn(OneProduct(ProductPayloads), {<<>>})

ConcurrentNext ==
  \/ \E c \in Clients, o \in ConcurrentOrderIns : CreateOrderRead(c, o)
  \/ \E c \in Clients : CreateOrderStamp(c)
  \/ \E c \in Clients : CreateOrderInsert(c)
  \/ \E payload \in ProductPayloads : UpdateProduct(ADMIN_TOKEN, SharedId, payload)

ConcurrentSpec == ConcurrentInit /\ [][ConcurrentNext]_vars

\* ------------------------------------------------------------- properties
\* the id is the id string of a product in the collection
References(id, productColl) ==
  \E o \in ProductOids : productColl[o] # NoDoc /\ id = str(o)

FailingCart(cartItems, productColl) ==
  \/ cartItems = <<>>
  \/ \E i \in 1..Len(cartItems) : ~References(cartItems[i].product_id, productColl)

ImmutablePart(doc) ==
  <<doc.items, doc.total_amount, doc.customer, doc.payment_method, doc.created_at>>

\* C1: a create_order call on an empty cart, or on a cart with a line (at any
\* position) whose product_id references no existing product, ends in an
\* error with the order collection exactly as it was; and every create_order
\* call that ends in an error leaves the order collection as it was.
C1_AllOrNothing ==
  [][\A c \in Clients :
       /\ (pc[c] = "idle" /\ pc'[c] # "idle" /\ FailingCart(orderIn'[c].items, product))
            => (pc'[c] = "done" /\ ret'[c].status \in {400, 500} /\ order' = order)
       /\ (pc[c] # "done" /\ pc'[c] = "done" /\ ret'[c].status # 200)
            => order' = order]_vars

C1_Witness ==
  /\ pc[1] = "done"
  /\ ret[1].status = 400
  /\ Len(orderIn[1].items) = 2
  /\ References(orderIn[1].items[1].product_id, product)
  /\ ~References(orderIn[1].items[2].product_id, product)

\* the total_amount create_order stores for the cart
StoredTotal(cartItems, productColl) ==
  Round2(Enrich(cartItems,
                Prods(productColl, {ObjectId(cartItems[i].product_id) : i \in 1..Len(cartItems)})).total)

LineOrders(n) == {f \in [1..n -> 1..n] : \A i, j \in 1..n : f[i] = f[j] => i = j}
Permuted(cartItems, f) == [i \in 1..Len(cartItems) |-> cartItems[f[i]]]

\* C2: a create_order call on a non-empty cart whose lines all reference
\* existing products succeeds; the stored total_amount is the sum of price x
\* quantity over the lines (taken as the float sum in submission order)
\* rounded to 2 decimals, and is the total of every permutation of the cart;
\* the stored line items are the cart lines in submission order with the
\* submitted quantities and the products' prices.
C2_TotalIsRoundedSum ==
  \A c \in Clients :
    (pc[c] = "done" /\ ~FailingCart(orderIn[c].items, product)) =>
      /\ ret[c].status = 200
      /\ LET cartItems == orderIn[c].items
             doc == order[ObjectId(ret[c].id)]
         IN /\ doc.total_amount = StoredTotal(cartItems, product)
            /\ \A f \in LineOrders(Len(cartItems)) :
                 StoredTotal(Permuted(cartItems, f), product) = doc.total_amount
            /\ Len(doc.items) = Len(cartItems)
            /\ \A i \in 1..Len(cartItems) :
                 /\ doc.items[i].product_id = cartItems[i].product_id
                 /\ doc.items[i].quantity = cartItems[i].quantity
                 /\ doc.items[i].price = product[ObjectId(cartItems[i].product_id)].price

\* C3: a stored order stays stored, and its items, total_amount, customer,
\* payment_method and created_at are the same after every step.
C3_SnapshotImmutable ==
  [][\A i \in DOMAIN order :
       /\ i \in DOMAIN order'
       /\ ImmutablePart(order'[i]) = ImmutablePart(order[i])]_vars

C3_Witness ==
  /\ Len(order) = 2
  /\ \E i \in DOMAIN order :
       /\ order[i].created_at >= 0
       /\ order[i].status = "paid"
       /\ order[i].updated_at > order[i].created_at
       /\ LET p == product[ObjectId(order[i].items[1].product_id)]
          IN p # NoDoc /\ p.price # order[i].items[1].price

StatusRank(s) == CASE s = "pending" -> 1 [] s = "paid" -> 2 [] s = "shipped" -> 3 [] OTHER -> 0

\* C4: every order enters the collection pending, every stored status is one
\* of pending, paid, shipped, every change of a status is one step forward
\* along pending -> paid -> shipped, and a shipped order stays shipped.
C4_Lifecycle ==
  [][/\ \A i \in DOMAIN order' :
          /\ order'[i].status \in OrderStatuses
          /\ i \notin DOMAIN order => order'[i].status = "pending"
     /\ \A i \in DOMAIN order :
          /\ order'[i].status # order[i].status
               => StatusRank(order'[i].status) = StatusRank(order[i].status) + 1
          /\ order[i].status = "shipped" => order'[i].status = "shipped"]_vars

NoStoredOrder(id, orderColl) ==
  validate(id).raised \/ validate(id).oid \notin DOMAIN orderColl

\* C5: mark_order_paid by the admin on an id that matches no stored order
\* answers 404 and leaves the order collection as it was.
C5_MarkPaidNotFound ==
  [][(/\ resp' # resp
      /\ resp'.op = "mark_order_paid"
      /\ resp'.tok = ADMIN_TOKEN
      /\ NoStoredOrder(resp'.id, order))
       => (resp'.status = 404 /\ order' = order)]_vars

\* the line items of one order that reference the same product carry the
\* same price, and the total is the one its own line items give
RECURSIVE FloatSum(_)
FloatSum(lineItems) ==
  IF lineItems = <<>> THEN 0
  ELSE FAdd(FloatSum(SubSeq(lineItems, 1, Len(lineItems) - 1)),
            FMul(lineItems[Len(lineItems)].price, lineItems[Len(lineItems)].quantity))

OwnSnapshot(lineItems) ==
  \A i, j \in 1..Len(lineItems) :
    lineItems[i].product_id = lineItems[j].product_id
      => lineItems[i].price = lineItems[j].price

\* C6: create_order calls for the same product, interleaved with each other
\* and with updates of its price, never wait (the next step of a call in
\* flight is always enabled) and each ends in 200; the line items of a call
\* carry the price the product had at the call's batch read, one price per
\* product, unchanged up to the insert, and the stored total_amount is the
\* one the stored line items give.
C6_IndependentSnapshots ==
  /\ [](\A c \in Clients :
          /\ pc[c] = "priced" => ENABLED CreateOrderStamp(c)
          /\ pc[c] = "stamped" => ENABLED CreateOrderInsert(c))
  /\ [][\A c \in Clients :
          /\ (pc[c] = "idle" /\ pc'[c] # "idle"
              /\ ~FailingCart(orderIn'[c].items, product))
               => /\ pc'[c] = "priced"
                  /\ Len(priced'[c].items) = Len(orderIn'[c].items)
                  /\ \A i \in 1..Len(priced'[c].items) :
                       priced'[c].items[i].price
                         = product[ObjectId(orderIn'[c].items[i].product_id)].price
                  /\ OwnSnapshot(priced'[c].items)
          /\ (pc[c] = "priced" /\ pc'[c] = "stamped") => priced'[c] = priced[c]
          /\ (pc[c] = "stamped" /\ pc'[c] # "stamped")
               => /\ pc'[c] = "done"
                  /\ ret'[c].status = 200
                  /\ Len(order') = Len(order) + 1
                  /\ LET doc == order'[Len(order')]
                     IN /\ doc.items = priced[c].items
                        /\ OwnSnapshot(doc.items)
                        /\ doc.total_amount = Round2(FloatSum(doc.items))]_vars

C6_Witness ==
  /\ pc[1] = "stamped"
  /\ pc[2] = "stamped"
  /\ Len(priced[1].items) = 2
  /\ priced[1].items[1].price # priced[2].items[1].price
  /\ product[ObjectId(SharedId)].price # priced[1].items[1].price

\* mark_order_paid has just answered 200 for the stored order i
MarkedPaid(i) ==
  /\ resp'.op = "mark_order_paid"
  /\ resp'.status = 200
  /\ ObjectId(resp'.id) = i
  /\ (resp' # resp \/ order'[i] # order[i])

\* C7 as stated: mark_order_paid on a pending order makes it paid with
\* updated_at later than created_at; on a paid order the status stays paid;
\* nothing but status and updated_at changes.
C7_PaidLaterThanCreated ==
  [][\A i \in DOMAIN order :
       (MarkedPaid(i) /\ order[i].status \in {"pending", "paid"})
         => /\ order'[i].status = "paid"
            /\ ImmutablePart(order'[i]) = ImmutablePart(order[i])
            /\ order[i].status = "pending"
                 => order'[i].updated_at > order'[i].created_at]_vars

\* C7 as amended: mark_order_paid on a pending order makes it paid with
\* updated_at the clock reading of the call, which is later than created_at
\* when the clock has advanced since the order was created; on a paid order
\* the status stays paid; nothing but status and updated_at changes.
C7_PaidAtClock ==
  [][\A i \in DOMAIN order :
       (MarkedPaid(i) /\ order[i].status \in {"pending", "paid"})
         => /\ order'[i].status = "paid"
            /\ ImmutablePart(order'[i]) = ImmutablePart(order[i])
            /\ order'[i].updated_at = clock
            /\ clock > order[i].created_at
                 => order'[i].updated_at > order'[i].created_at]_vars

C7_Witness ==
  /\ resp.op = "mark_order_paid"
  /\ resp.status = 200
  /\ \E i \in DOMAIN order :
       /\ ObjectId(resp.id) = i
       /\ order[i].status = "paid"
       /\ order[i].created_at >= 0
       /\ order[i].updated_at = order[i].created_at

\* C8: create_order answers 400 for an empty cart and for a cart with a
\* product_id that identifies no existing product, whatever its shape;
\* get_order and mark_order_paid (by the admin) answer 404 for an id that
\* identifies no stored order.
C8_ErrorStatus ==
  [][/\ \A c \in Clients :
          (pc[c] = "idle" /\ pc'[c] # "idle" /\ FailingCart(orderIn'[c].items, product))
            => (pc'[c] = "done" /\ ret'[c].status = 400)
     /\ (/\ resp' # resp
         /\ \/ resp'.op = "get_order"
            \/ resp'.op = "mark_order_paid" /\ resp'.tok = ADMIN_TOKEN
         /\ NoStoredOrder(resp'.id, order))
          => resp'.status = 404]_vars

Privileged ==
  {"list_orders", "mark_order_paid", "create_product", "update_product", "delete_product"}

\* C9: a privileged operation called with a token other than the configured
\* one (a missing token included) answers 401 and leaves the product and the
\* order collection as they were, whatever id it names.
C9_AdminGate ==
  [][(resp' # resp /\ resp'.op \in Privileged /\ resp'.tok # ADMIN_TOKEN)
       => (resp'.status = 401 /\ product' = product /\ order' = order)]_vars

C9_Witness ==
  /\ resp.op = "delete_product"
  /\ resp.tok = ""
  /\ resp.status = 401
  /\ resp.id.form = "lower"
  /\ product[ObjectId(resp.id)] = NoDoc

\* C10: an order enters the collection with created_at equal to updated_at.
C10_StampsEqual ==
  [][\A i \in DOMAIN order' :
       i \notin DOMAIN order => order'[i].created_at = order'[i].updated_at]_vars

====
